---------------------------- MODULE Spec2Model ----------------------------
(***************************************************************************)
(* Model of the audio pipeline of tui_music_player.                        *)
(*                                                                         *)
(*   Spec    the capture tap (VisualizerSource), the shared sample buffer, *)
(*           the spectrum analyser thread (SpectrumAnalyzer::fft_loop) and *)
(*           the control path (Player::play_file_from, spectrum()).        *)
(*   SpecSnap  the same pipeline with shorter streams, more published      *)
(*           snapshots and two window profiles (silence and a tone).       *)
(*   SpecEq  the gain store (EqGains) with its writers and readers.        *)
(*   SpecDown, SpecDownLive  the pipeline in a run that ends with the      *)
(*           analyser dropped; SpecDownLive adds the fairness of its       *)
(*           threads.                                                      *)
(*   SpecEqSrc  the equalizer stage (EqSource) next to the gain store.     *)
(*   SpecBins  the mapping of bars to FFT bins in one analyser iteration.  *)
(*   SpecPlay, SpecPlayLive  the pipeline with a source that does not end  *)
(*           and sources of up to 5 channels; SpecPlayLive adds fairness.  *)
(*   SpecDecay, SpecDecayLive  the smoothing of the bars over successive   *)
(*           windows, whole iterations at a time.                          *)
(*   SpecApp  the track list of App: its key handlers and the tick.        *)
(*   SpecSeek  seeking: the Player's start offset and position, in whole   *)
(*           seconds, over songs with and without a recorded duration.     *)
(*                                                                         *)
(* Three executions run concurrently: the audio thread pulling samples     *)
(* through VisualizerSource::next, the analyser thread, and the UI thread. *)
(* Every step below is one access to shared state of one of them.          *)
(*                                                                         *)
(* Sizes are scaled: FFT_SIZE and NUM_BARS are 2048 and 32 in the source;  *)
(* the threads depend on BUFFER_CAP being FFT_SIZE * 4 and on the window   *)
(* being FFT_SIZE * channels samples, not on the values. SpecBins, where   *)
(* the values matter, has the sizes of the source.                         *)
(* Bar values (f64 in the source) are fixed-point, in 1/Scale units.       *)
(***************************************************************************)
EXTENDS Integers, Sequences, FiniteSets, TLC

\* ---------------------------------------------------------------- sizes --

\* visualizer.rs:12, scaled (2048 in the source)
FFT_SIZE == 1

\* visualizer.rs:15, scaled (32 in the source)
NUM_BARS == 2

\* visualizer.rs:18
BUFFER_CAP == FFT_SIZE * 4

\* visualizer.rs:21, DECAY = 0.55, in percent
DECAY == 55

\* resolution of a bar value: a bar v of the source is the integer v * Scale
Scale == 100

\* Spec: samples a decoded stream yields before it ends (more than BUFFER_CAP),
\* calls of Player::play_file_from, analyser iterations that publish
MaxSamples == 5

MaxTracks == 2

MaxPublish == 1

\* eq.rs:12-13
MIN_CENTI_DB == -1200

MAX_CENTI_DB == 1200

\* SpecEq: stores into the gain store
MaxWrites == 3

\* eq.rs:18, scaled (256 in the source)
COEF_UPDATE_INTERVAL == 3

\* SpecSnap: the same three, for short streams and more publications
SnapSamples == 2

SnapTracks == 2

SnapPublish == 2

\* SpecDown: the same three, for a run that ends with the analyser dropped
DownSamples == 2

DownTracks == 1

DownPublish == 1

\* channel counts a decoded file can have (player.rs:56)
Chans == {1, 2}

\* what a window can hold, as the dB level 20 * log10(max(avg, 1e-10)) of
\* each bar's bins: silence (the 1e-10 floor, -200 dB) in every bar, or a tone
\* that puts bar 1 above the displayed range and the others inside it
Silence == [i \in 1..NUM_BARS |-> -200]

Tone == [i \in 1..NUM_BARS |-> IF i = 1 THEN 40 ELSE 10]

DbProfiles == {Silence, Tone}

Free == "free"

VARIABLES
    \* shared state (visualizer.rs:86-92, player.rs:13-21)
    buf,          \* sample_buffer: VecDeque<f32>, a sample is <<stream, index>>
    bufLock,      \* holder of the sample_buffer mutex
    spectrum,     \* spectrum: Vec<f64>
    specLock,     \* holder of the spectrum mutex
    channels,     \* channels: AtomicU16
    running,      \* running: AtomicBool
    sinkSrc,      \* the stream the current Sink plays, 0 = none
    tracks,       \* play_file_from calls so far, names the streams
    pos,          \* samples the playing stream has yielded
    \* audio thread, inside VisualizerSource::next
    audPc, audSample,
    \* analyser thread, inside fft_loop
    fftPc, fftCh, raw, prev, newSpec, publishes,
    \* UI thread, inside play_file_from / spectrum
    uiPc, rdAcc,
    \* history
    produced,     \* samples the stream last pulled has yielded, in order
    returned,     \* what next() has returned to the sink of them, in order
    ended,        \* streams whose inner iterator / whose tap has returned None
    pushed,       \* samples copied into buf since the last clear, in order
    completed,    \* the stream started by the last play_file_from that returned Ok
    rawSeek,      \* completed, when the analyser's buffer read was initiated
    newGens,      \* streams whose samples are in the window newSpec was made of
    specGens,     \* the same for the snapshot in spectrum
    published,    \* every array the analyser has published
    wokeStopped   \* running was already cleared when the last sleep ended

sharedVars == <<buf, bufLock, spectrum, specLock, channels, running, sinkSrc,
                tracks, pos>>

audVars == <<audPc, audSample>>

fftVars == <<fftPc, fftCh, raw, prev, newSpec, publishes>>

uiVars == <<uiPc, rdAcc>>

histVars == <<produced, returned, ended, pushed, completed, rawSeek,
              newGens, specGens, published, wokeStopped>>

vizVars == <<sharedVars, audVars, fftVars, uiVars, histVars>>

VARIABLES
    \* the gain store and the equalizer popup (eq.rs:22-26, app.rs:35-38)
    gains,        \* EqGains: bass, mid, treble: AtomicI32, in centi-dB
    selBand,      \* eq_state.selected_band
    \* audio thread, inside EqGains::load_centi
    loaded,       \* the loads done so far, in order bass, mid, treble
    \* history
    writes,       \* stores done so far
    lastSet,      \* the last set_<band>_db: band, requested gain, gains before
    written       \* every value stored in each band, the initial 0 included

eqVars == <<gains, selBand, loaded, writes, lastSet, written>>

VARIABLES
    \* the equalizer stage of the playing stream (eq.rs:76-85)
    srcPc,        \* position inside EqSource::next; "none" before the first
                  \* EqSource is built, "panic" once the process has panicked
    srcN,         \* n: samples since the last gain check
    lastGains,    \* last_gains, in centi-dB
    coef,         \* bass, mid, treble coefficients: for a fixed sample rate,
                  \* centre frequency and Q they are a function of the gain
                  \* they were derived from, so that gain stands for them
    delay,        \* each filter's delay state: 0 after a reset, 1 once a
                  \* sample has run through it
    \* history
    stale,        \* bands whose derivation failed in the last update_coeffs
    lastBuild,    \* what set last_gains last: "new" or "refresh"
    seeked,       \* no sample was filtered since the last seek or restart
    seenWrites,   \* stores done when the last call of next() began
    sinceWrite    \* calls of next() begun since the store before that

srcVars == <<srcPc, srcN, lastGains, coef, delay, stale, lastBuild, seeked,
             seenWrites, sinceWrite>>

VARIABLES
    \* the bar-to-bin mapping of one analyser iteration (visualizer.rs:215-226)
    binPc, binHalf, binBars, binI, binLo, binHi, binRanges

binVars == <<binPc, binHalf, binBars, binI, binLo, binHi, binRanges>>

VARIABLES
    \* the smoothing of one analyser over successive windows
    \* (visualizer.rs:228-245)
    dWin,         \* loudness profile of the window the buffer holds now
    dPrev,        \* the analyser's prev
    dSpec         \* the published snapshot

decVars == <<dWin, dPrev, dSpec>>

VARIABLES
    \* App (app.rs:58-67) and what it sees of its Player's sink
    appPc,        \* "new" before App::new, then "run"
    songsLen,     \* songs.len()
    selected,
    nowPlaying,   \* now_playing: None or an index
    repeat,
    listSel,      \* list_state.selected(): None or an index
    sinkEmpty,    \* player.is_empty()
    sinkPaused,   \* player.is_paused()
    \* history
    appOp,        \* the last operation that ran
    appSeq,       \* flips with every operation
    started,      \* the index the last operation handed to the player, or None
    seenPos       \* the position (ms) the last prev_track read

appVars == <<appPc, songsLen, selected, nowPlaying, repeat, listSel, sinkEmpty,
             sinkPaused, appOp, appSeq, started, seenPos>>

VARIABLES
    \* what seeking works with: the scanned songs and the Player's clock
    songLens,       \* for each song, how long its file plays (seconds)
    songDurs,       \* for each song, Song::duration: None or its length
    playbackStart,  \* Player::playback_start (seconds)
    sinkPos,        \* sink.get_pos(): what the current sink has played
    \* history
    seekPos         \* the position the last seek read

seekVars == <<songLens, songDurs, playbackStart, sinkPos, seekPos>>

vars == <<vizVars, eqVars, srcVars, binVars, decVars, appVars, seekVars>>

Bars == 1..NUM_BARS

Zeros == [i \in Bars |-> 0]

NoSample == <<0, 0>>

\* SpectrumAnalyzer::new (visualizer.rs:95-118), Player::new (player.rs:24-38)
InitViz ==
    /\ buf = <<>>
    /\ bufLock = Free
    /\ spectrum = Zeros
    /\ specLock = Free
    /\ channels = 2
    /\ running = TRUE
    /\ sinkSrc = 0
    /\ tracks = 0
    /\ pos = 0
    /\ audPc = "idle"
    /\ audSample = NoSample
    /\ fftPc = "loop"
    /\ fftCh = 0
    /\ raw = <<>>
    /\ prev = Zeros
    /\ newSpec = Zeros
    /\ publishes = 0
    /\ uiPc = "idle"
    /\ rdAcc = <<>>
    /\ produced = <<>>
    /\ returned = <<>>
    /\ ended = [inner |-> {}, tap |-> {}]
    /\ pushed = <<>>
    /\ completed = 0
    /\ rawSeek = 0
    /\ newGens = {}
    /\ specGens = {}
    /\ published = {}
    /\ wokeStopped = FALSE

\* gains are requested and read in dB (f32); the model counts them in 1/1000 dB
Bands == <<"bass", "mid", "treble">>

BandSet == {"bass", "mid", "treble"}

\* EqGains::default (eq.rs:28-32), EqState::default (app.rs:40-44)
InitEq ==
    /\ gains = [b \in BandSet |-> 0]
    /\ selBand = 0
    /\ loaded = <<>>
    /\ writes = 0
    /\ lastSet = [band |-> "none", g |-> 0, before |-> [b \in BandSet |-> 0]]
    /\ written = [b \in BandSet |-> {0}]

\* no EqSource exists before the first play_file_from
InitSrc ==
    /\ srcPc = "none"
    /\ srcN = 0
    /\ lastGains = [b \in BandSet |-> 0]
    /\ coef = [b \in BandSet |-> 0]
    /\ delay = [b \in BandSet |-> 0]
    /\ stale = {}
    /\ lastBuild = "new"
    /\ seeked = FALSE
    /\ seenWrites = 0
    /\ sinceWrite = 0

\* no iteration has computed a bar yet
InitBins ==
    /\ binPc = "start"
    /\ binHalf = 0
    /\ binBars = 0
    /\ binI = 0
    /\ binLo = 0
    /\ binHi = 0
    /\ binRanges = <<>>

\* visualizer.rs:159: prev starts as all zeros; :96: so does the snapshot
InitDecay ==
    /\ dWin = Silence
    /\ dPrev = Zeros
    /\ dSpec = Zeros

None == -1

InitApp ==
    /\ appPc = "new"
    /\ songsLen = 0
    /\ selected = 0
    /\ nowPlaying = None
    /\ repeat = "Off"
    /\ listSel = None
    /\ sinkEmpty = TRUE
    /\ sinkPaused = TRUE
    /\ appOp = "none"
    /\ appSeq = 0
    /\ started = None
    /\ seenPos = 0

\* player.rs:36: playback_start is Duration::ZERO; no song is scanned yet
InitSeek ==
    /\ songLens = <<>>
    /\ songDurs = <<>>
    /\ playbackStart = 0
    /\ sinkPos = 0
    /\ seekPos = 0

Init ==
    InitViz /\ InitEq /\ InitSrc /\ InitBins /\ InitDecay /\ InitApp /\ InitSeek

\* ------------------------------------------------------------- helpers --

Max(a, b) == IF a > b THEN a ELSE b

Min(a, b) == IF a < b THEN a ELSE b

Clamp(x, lo, hi) == Max(lo, Min(x, hi))

Last(s, n) == SubSeq(s, Len(s) - n + 1, Len(s))

GensOf(s) == {s[i][1] : i \in 1..Len(s)}

\* ------------------------------------- audio thread: VisualizerSource::next

\* visualizer.rs:45, self.inner.next(): the p+1-th sample of stream g, which
\* has len samples, or None
InnerNext(g, p, len) == IF p < len THEN <<g, p + 1>> ELSE NoSample

\* a lock() in place of the try_lock(): the caller waits while the lock is held
TapLockBlocking(holder) == IF holder = Free THEN "acquired" ELSE "wait"

\* visualizer.rs:47, self.buffer.try_lock(): Ok iff nobody holds the lock, and
\* it returns at once either way
TapLock(holder) == IF holder = Free THEN "acquired" ELSE "busy"

\* an off-by-one eviction: one sample too few is drained
DrainShort(b) == IF Len(b) > BUFFER_CAP + 1 THEN Last(b, BUFFER_CAP) ELSE b

\* visualizer.rs:49-52, drain(..excess)
Drain(b) == IF Len(b) > BUFFER_CAP THEN Last(b, BUFFER_CAP) ELSE b

\* the sample goes to the wrong end, so eviction drops the newest
PushFront(b, s) == <<s>> \o b

\* visualizer.rs:48, push_back(sample)
PushBack(b, s) == Append(b, s)

\* the sample reaches the sink only when it was copied
TapReturnIfCopied(sample, copied) == IF copied THEN sample ELSE NoSample

\* visualizer.rs:54, Some(sample), copied or not
TapReturn(sample, copied) == sample

Deliver(out, item) == IF item = NoSample THEN out ELSE Append(out, item)

\* visualizer.rs:45: the sink polls the tap, which polls the inner stream; on
\* None the ? operator returns None from next() and the sink is left empty
AudioPull(len) ==
    /\ audPc = "idle"
    /\ UNCHANGED <<eqVars, srcVars, binVars, decVars, appVars, seekVars>>
    /\ sinkSrc # 0
    /\ LET s == InnerNext(sinkSrc, pos, len) IN
       IF s = NoSample
       THEN /\ ended' = [inner |-> ended.inner \cup {sinkSrc},
                         tap |-> ended.tap \cup {sinkSrc}]
            /\ sinkSrc' = 0
            /\ UNCHANGED <<pos, produced, returned, audVars>>
       ELSE /\ pos' = pos + 1
            /\ produced' = IF pos = 0 THEN <<s>> ELSE Append(produced, s)
            /\ returned' = IF pos = 0 THEN <<>> ELSE returned
            /\ audSample' = s
            /\ audPc' = "try"
            /\ UNCHANGED <<ended, sinkSrc>>
    /\ UNCHANGED <<buf, bufLock, spectrum, specLock, channels, running, tracks>>
    /\ UNCHANGED <<fftVars, uiVars>>
    /\ UNCHANGED <<pushed, completed, rawSeek, wokeStopped, newGens, specGens,
                   published>>

\* visualizer.rs:47 and, when the lock is busy, :53-54
AudioTryLock ==
    /\ audPc = "try"
    /\ UNCHANGED <<eqVars, srcVars, binVars, decVars, appVars, seekVars>>
    /\ TapLock(bufLock) # "wait"
    /\ IF TapLock(bufLock) = "acquired"
       THEN /\ bufLock' = "audio"
            /\ audPc' = "push"
            /\ UNCHANGED <<returned, audSample>>
       ELSE /\ returned' = Deliver(returned, TapReturn(audSample, FALSE))
            /\ audPc' = "idle"
            /\ audSample' = NoSample
            /\ UNCHANGED bufLock
    /\ UNCHANGED <<buf, spectrum, specLock, channels, running, sinkSrc, tracks,
                   pos>>
    /\ UNCHANGED <<fftVars, uiVars>>
    /\ UNCHANGED <<produced, ended, pushed, completed, rawSeek, wokeStopped, newGens,
                   specGens, published>>

\* visualizer.rs:48
AudioPush ==
    /\ audPc = "push"
    /\ UNCHANGED <<eqVars, srcVars, binVars, decVars, appVars, seekVars>>
    /\ buf' = PushBack(buf, audSample)
    /\ pushed' = Append(pushed, audSample)
    /\ audPc' = "drain"
    /\ UNCHANGED <<bufLock, spectrum, specLock, channels, running, sinkSrc,
                   tracks, pos, audSample>>
    /\ UNCHANGED <<fftVars, uiVars>>
    /\ UNCHANGED <<produced, returned, ended, completed, rawSeek, wokeStopped, newGens,
                   specGens, published>>

\* visualizer.rs:49-54: evict, drop the guard, return the sample
AudioDrain ==
    /\ audPc = "drain"
    /\ UNCHANGED <<eqVars, srcVars, binVars, decVars, appVars, seekVars>>
    /\ buf' = Drain(buf)
    /\ bufLock' = Free
    /\ returned' = Deliver(returned, TapReturn(audSample, TRUE))
    /\ audPc' = "idle"
    /\ audSample' = NoSample
    /\ UNCHANGED <<spectrum, specLock, channels, running, sinkSrc, tracks, pos>>
    /\ UNCHANGED <<fftVars, uiVars>>
    /\ UNCHANGED <<produced, ended, pushed, completed, rawSeek, wokeStopped, newGens,
                   specGens, published>>

\* --------------------------------- analyser thread: SpectrumAnalyzer::fft_loop

\* the normalisation without its clamp
NormalizeUnclamped(db) == ((db + 20) * 100 * Scale) \div 55

\* visualizer.rs:230, ((db + 20.0) / 55.0 * 100.0).clamp(0.0, 100.0)
Normalize(db) == Clamp(((db + 20) * 100 * Scale) \div 55, 0, 100 * Scale)

\* a bar that does not fall holds its previous value
SmoothHold(p, n) ==
    IF n > p THEN (p * 2 + n * 8) \div 10
             ELSE p

\* visualizer.rs:233-237, asymmetric smoothing against the previous value
Smooth(p, n) ==
    IF n > p THEN (p * 2 + n * 8) \div 10
             ELSE (p * DECAY + n * (100 - DECAY)) \div 100

\* visualizer.rs:215-239: the bars of one iteration, from the previous bars and
\* the dB level of each bar's bins
NewSpec(p, db) == [i \in Bars |-> Smooth(p[i], Normalize(db[i]))]

\* visualizer.rs:137, v.round() as u64 (bars are never negative)
Round(v) == (v + Scale \div 2) \div Scale

\* the analyser writes the snapshot without waiting for the spectrum lock
PublishLockIgnored(holder) == TRUE

\* visualizer.rs:243, spec.lock(): granted only while nobody holds the lock
PublishLock(holder) == holder = Free

\* visualizer.rs:172: while run.load(Relaxed); iterations are counted only
\* while the flag is set
FftLoop(maxPublish) ==
    /\ fftPc = "loop"
    /\ UNCHANGED <<eqVars, srcVars, binVars, decVars, appVars, seekVars>>
    /\ running => publishes < maxPublish
    /\ fftPc' = IF running THEN "sleep" ELSE "exit"
    /\ UNCHANGED <<fftCh, raw, prev, newSpec, publishes>>
    /\ UNCHANGED <<sharedVars, audVars, uiVars, histVars>>

\* visualizer.rs:173-175: the sleep ends, ch.load(Relaxed).max(1)
FftWake ==
    /\ fftPc = "sleep"
    /\ UNCHANGED <<eqVars, srcVars, binVars, decVars, appVars, seekVars>>
    /\ fftCh' = Max(channels, 1)
    /\ rawSeek' = completed
    /\ wokeStopped' = ~running
    /\ fftPc' = "lockbuf"
    /\ UNCHANGED <<raw, prev, newSpec, publishes>>
    /\ UNCHANGED <<sharedVars, audVars, uiVars>>
    /\ UNCHANGED <<produced, returned, ended, pushed, completed, newGens,
                   specGens, published>>

\* visualizer.rs:179, buf.lock(): waits until the lock is free
FftLockBuf ==
    /\ fftPc = "lockbuf"
    /\ UNCHANGED <<eqVars, srcVars, binVars, decVars, appVars, seekVars>>
    /\ bufLock = Free
    /\ bufLock' = "fft"
    /\ fftPc' = "read"
    /\ UNCHANGED <<buf, spectrum, specLock, channels, running, sinkSrc, tracks,
                   pos>>
    /\ UNCHANGED <<fftCh, raw, prev, newSpec, publishes>>
    /\ UNCHANGED <<audVars, uiVars, histVars>>

\* the length check does not end the iteration: bars are computed anyway
FftSkipComputes ==
    /\ fftPc = "read"
    /\ UNCHANGED <<eqVars, srcVars, binVars, decVars, appVars, seekVars>>
    /\ Len(buf) < FFT_SIZE * fftCh
    /\ bufLock' = Free
    /\ newSpec' = NewSpec(prev, Tone)
    /\ prev' = newSpec'
    /\ fftPc' = "lockspec"
    /\ UNCHANGED <<buf, spectrum, specLock, channels, running, sinkSrc, tracks,
                   pos>>
    /\ UNCHANGED <<fftCh, raw, publishes>>
    /\ UNCHANGED <<audVars, uiVars, histVars>>

\* visualizer.rs:182-185: too few samples, drop the guard and continue
FftSkip ==
    /\ fftPc = "read"
    /\ UNCHANGED <<eqVars, srcVars, binVars, decVars, appVars, seekVars>>
    /\ Len(buf) < FFT_SIZE * fftCh
    /\ bufLock' = Free
    /\ fftPc' = "loop"
    /\ UNCHANGED <<buf, spectrum, specLock, channels, running, sinkSrc, tracks,
                   pos>>
    /\ UNCHANGED <<fftCh, raw, prev, newSpec, publishes>>
    /\ UNCHANGED <<audVars, uiVars, histVars>>

\* the buffer guard is kept past the copy, into the wait for the spectrum lock
FftReadKeepsGuard(profiles) ==
    /\ fftPc = "read"
    /\ UNCHANGED <<eqVars, srcVars, binVars, decVars, appVars, seekVars>>
    /\ Len(buf) >= FFT_SIZE * fftCh
    /\ raw' = Last(buf, FFT_SIZE * fftCh)
    /\ \E db \in profiles : newSpec' = NewSpec(prev, db)
    /\ prev' = newSpec'
    /\ newGens' = GensOf(raw')
    /\ fftPc' = "lockspec"
    /\ UNCHANGED <<buf, bufLock, spectrum, specLock, channels, running, sinkSrc,
                   tracks, pos>>
    /\ UNCHANGED <<fftCh, publishes>>
    /\ UNCHANGED <<audVars, uiVars>>
    /\ UNCHANGED <<produced, returned, ended, pushed, completed, rawSeek, wokeStopped,
                   specGens, published>>

\* the window is taken out of the buffer instead of copied from it
FftReadConsumes(profiles) ==
    /\ fftPc = "read"
    /\ UNCHANGED <<eqVars, srcVars, binVars, decVars, appVars, seekVars>>
    /\ Len(buf) >= FFT_SIZE * fftCh
    /\ raw' = Last(buf, FFT_SIZE * fftCh)
    /\ buf' = SubSeq(buf, 1, Len(buf) - FFT_SIZE * fftCh)
    /\ bufLock' = Free
    /\ \E db \in profiles : newSpec' = NewSpec(prev, db)
    /\ prev' = newSpec'
    /\ newGens' = GensOf(raw')
    /\ fftPc' = "lockspec"
    /\ UNCHANGED <<spectrum, specLock, channels, running, sinkSrc, tracks, pos>>
    /\ UNCHANGED <<fftCh, publishes>>
    /\ UNCHANGED <<audVars, uiVars>>
    /\ UNCHANGED <<produced, returned, ended, pushed, completed, rawSeek, wokeStopped,
                   specGens, published>>

\* visualizer.rs:186-241: copy the newest FFT_SIZE * channels samples, drop the
\* guard, then (on private data) downmix, window, FFT, bars, prev = new_spec
FftRead(profiles) ==
    /\ fftPc = "read"
    /\ UNCHANGED <<eqVars, srcVars, binVars, decVars, appVars, seekVars>>
    /\ Len(buf) >= FFT_SIZE * fftCh
    /\ raw' = Last(buf, FFT_SIZE * fftCh)
    /\ bufLock' = Free
    /\ \E db \in profiles : newSpec' = NewSpec(prev, db)
    /\ prev' = newSpec'
    /\ newGens' = GensOf(raw')
    /\ fftPc' = "lockspec"
    /\ UNCHANGED <<buf, spectrum, specLock, channels, running, sinkSrc, tracks,
                   pos>>
    /\ UNCHANGED <<fftCh, publishes>>
    /\ UNCHANGED <<audVars, uiVars>>
    /\ UNCHANGED <<produced, returned, ended, pushed, completed, rawSeek, wokeStopped,
                   specGens, published>>

\* visualizer.rs:243, spec.lock()
FftLockSpec ==
    /\ fftPc = "lockspec"
    /\ UNCHANGED <<eqVars, srcVars, binVars, decVars, appVars, seekVars>>
    /\ PublishLock(specLock)
    /\ specLock' = "fft"
    /\ fftPc' = "publish"
    /\ UNCHANGED <<buf, bufLock, spectrum, channels, running, sinkSrc, tracks,
                   pos>>
    /\ UNCHANGED <<fftCh, raw, prev, newSpec, publishes>>
    /\ UNCHANGED <<audVars, uiVars, histVars>>

\* visualizer.rs:244-246: *guard = new_spec, drop the guard, end of iteration
FftPublish ==
    /\ fftPc = "publish"
    /\ UNCHANGED <<eqVars, srcVars, binVars, decVars, appVars, seekVars>>
    /\ spectrum' = newSpec
    /\ specGens' = newGens
    /\ published' = published \cup {newSpec}
    /\ specLock' = Free
    /\ publishes' = publishes + 1
    /\ raw' = <<>>
    /\ newSpec' = Zeros
    /\ newGens' = {}
    /\ fftPc' = "loop"
    /\ UNCHANGED <<buf, bufLock, channels, running, sinkSrc, tracks, pos>>
    /\ UNCHANGED <<fftCh, prev>>
    /\ UNCHANGED <<audVars, uiVars>>
    /\ UNCHANGED <<produced, returned, ended, pushed, completed, rawSeek, wokeStopped>>

\* ------------------------------- UI thread: Player::play_file_from, spectrum

\* player.rs:47-48: sink.stop(), a new Sink; the old source is pulled no more
UiPlay(maxTracks) ==
    /\ uiPc = "idle"
    /\ UNCHANGED <<eqVars, srcVars, binVars, decVars, appVars, seekVars>>
    /\ tracks < maxTracks
    /\ tracks' = tracks + 1
    /\ sinkSrc' = 0
    /\ uiPc' = "clr_lockbuf"
    /\ UNCHANGED <<buf, bufLock, spectrum, specLock, channels, running, pos>>
    /\ UNCHANGED rdAcc
    /\ UNCHANGED <<audVars, fftVars, histVars>>

\* visualizer.rs:143, sample_buffer.lock()
UiClearLockBuf ==
    /\ uiPc = "clr_lockbuf"
    /\ UNCHANGED <<eqVars, srcVars, binVars, decVars, appVars, seekVars>>
    /\ bufLock = Free
    /\ bufLock' = "ui"
    /\ uiPc' = "clr_buf"
    /\ UNCHANGED <<buf, spectrum, specLock, channels, running, sinkSrc, tracks,
                   pos>>
    /\ UNCHANGED rdAcc
    /\ UNCHANGED <<audVars, fftVars, histVars>>

\* visualizer.rs:144-145: buf.clear(), drop the guard
UiClearBuf ==
    /\ uiPc = "clr_buf"
    /\ UNCHANGED <<eqVars, srcVars, binVars, decVars, appVars, seekVars>>
    /\ buf' = <<>>
    /\ pushed' = <<>>
    /\ bufLock' = Free
    /\ uiPc' = "clr_lockspec"
    /\ UNCHANGED <<spectrum, specLock, channels, running, sinkSrc, tracks, pos>>
    /\ UNCHANGED rdAcc
    /\ UNCHANGED <<audVars, fftVars>>
    /\ UNCHANGED <<produced, returned, ended, completed, rawSeek, wokeStopped, newGens,
                   specGens, published>>

\* visualizer.rs:146, spectrum.lock()
UiClearLockSpec ==
    /\ uiPc = "clr_lockspec"
    /\ UNCHANGED <<eqVars, srcVars, binVars, decVars, appVars, seekVars>>
    /\ specLock = Free
    /\ specLock' = "ui"
    /\ uiPc' = "clr_spec"
    /\ UNCHANGED <<buf, bufLock, spectrum, channels, running, sinkSrc, tracks,
                   pos>>
    /\ UNCHANGED rdAcc
    /\ UNCHANGED <<audVars, fftVars, histVars>>

\* visualizer.rs:147-148: every bar set to 0.0 under the lock, drop the guard
UiClearSpec ==
    /\ uiPc = "clr_spec"
    /\ UNCHANGED <<eqVars, srcVars, binVars, decVars, appVars, seekVars>>
    /\ spectrum' = Zeros
    /\ specGens' = {}
    /\ specLock' = Free
    /\ uiPc' = "open"
    /\ UNCHANGED <<buf, bufLock, channels, running, sinkSrc, tracks, pos>>
    /\ UNCHANGED rdAcc
    /\ UNCHANGED <<audVars, fftVars>>
    /\ UNCHANGED <<produced, returned, ended, pushed, completed, rawSeek, wokeStopped,
                   newGens, published>>

\* player.rs:52-54: File::open / Decoder::new fail, play_file_from returns Err
UiOpenFail ==
    /\ uiPc = "open"
    /\ UNCHANGED <<eqVars, srcVars, binVars, decVars, appVars, seekVars>>
    /\ uiPc' = "idle"
    /\ UNCHANGED rdAcc
    /\ UNCHANGED <<sharedVars, audVars, fftVars, histVars>>

\* player.rs:52-57: the file decodes, set_channels(source.channels())
UiOpen ==
    /\ uiPc = "open"
    /\ UNCHANGED <<eqVars, srcVars, binVars, decVars, appVars, seekVars>>
    /\ \E ch \in Chans : channels' = ch
    /\ uiPc' = "append"
    /\ UNCHANGED <<buf, bufLock, spectrum, specLock, running, sinkSrc, tracks,
                   pos>>
    /\ UNCHANGED rdAcc
    /\ UNCHANGED <<audVars, fftVars, histVars>>

\* player.rs:59-66: wrap the source, sink.append, sink.play, return Ok
UiAppend ==
    /\ uiPc = "append"
    /\ UNCHANGED <<eqVars, srcVars, binVars, decVars, appVars, seekVars>>
    /\ sinkSrc' = tracks
    /\ pos' = 0
    /\ completed' = tracks
    /\ uiPc' = "idle"
    /\ UNCHANGED <<buf, bufLock, spectrum, specLock, channels, running, tracks>>
    /\ UNCHANGED rdAcc
    /\ UNCHANGED <<audVars, fftVars>>
    /\ UNCHANGED <<produced, returned, ended, pushed, rawSeek, wokeStopped, newGens,
                   specGens, published>>

\* visualizer.rs:135-136, spectrum(): self.spectrum.lock()
UiSpectrumLock ==
    /\ uiPc = "idle"
    /\ UNCHANGED <<eqVars, srcVars, binVars, decVars, appVars, seekVars>>
    /\ specLock = Free
    /\ specLock' = "ui"
    /\ rdAcc' = <<>>
    /\ uiPc' = "rd"
    /\ UNCHANGED <<buf, bufLock, spectrum, channels, running, sinkSrc, tracks,
                   pos>>
    /\ UNCHANGED <<audVars, fftVars>>
    /\ UNCHANGED <<produced, returned, ended, pushed, completed, rawSeek, wokeStopped,
                   newGens, specGens, published>>

\* visualizer.rs:137: s.iter().map(round), one bar
UiSpectrumBar ==
    /\ uiPc = "rd"
    /\ UNCHANGED <<eqVars, srcVars, binVars, decVars, appVars, seekVars>>
    /\ Len(rdAcc) < NUM_BARS
    /\ rdAcc' = Append(rdAcc, Round(spectrum[Len(rdAcc) + 1]))
    /\ UNCHANGED uiPc
    /\ UNCHANGED <<sharedVars, audVars, fftVars, histVars>>

\* visualizer.rs:137-139: collect(), drop the guard, return the vector
UiSpectrumEnd ==
    /\ uiPc = "rd"
    /\ UNCHANGED <<eqVars, srcVars, binVars, decVars, appVars, seekVars>>
    /\ Len(rdAcc) = NUM_BARS
    /\ specLock' = Free
    /\ rdAcc' = <<>>
    /\ uiPc' = "idle"
    /\ UNCHANGED <<buf, bufLock, spectrum, channels, running, sinkSrc, tracks,
                   pos>>
    /\ UNCHANGED <<audVars, fftVars>>
    /\ UNCHANGED <<produced, returned, ended, pushed, completed, rawSeek, wokeStopped,
                   newGens, specGens, published>>

\* the spawned thread is not waited for
JoinDetached(pc) == TRUE

\* visualizer.rs:254, handle.join(): returns once the thread has exited
JoinReturns(pc) == pc = "exit"

\* visualizer.rs:252, Drop: running.store(false, Relaxed)
DropStore ==
    /\ uiPc = "idle"
    /\ UNCHANGED <<eqVars, srcVars, binVars, decVars, appVars, seekVars>>
    /\ running' = FALSE
    /\ uiPc' = "join"
    /\ UNCHANGED <<buf, bufLock, spectrum, specLock, channels, sinkSrc, tracks,
                   pos>>
    /\ UNCHANGED rdAcc
    /\ UNCHANGED <<audVars, fftVars, histVars>>

\* visualizer.rs:253-255, Drop: thread.take(), handle.join(), return
DropJoin ==
    /\ uiPc = "join"
    /\ UNCHANGED <<eqVars, srcVars, binVars, decVars, appVars, seekVars>>
    /\ JoinReturns(fftPc)
    /\ uiPc' = "dropped"
    /\ UNCHANGED rdAcc
    /\ UNCHANGED <<sharedVars, audVars, fftVars, histVars>>

\* the three executions, with the stream length, the play_file_from calls,
\* the publications and the window contents the run is bounded by
Pipeline(len, maxTracks, maxPublish, profiles) ==
    \/ AudioPull(len) \/ AudioTryLock \/ AudioPush \/ AudioDrain
    \/ FftLoop(maxPublish) \/ FftWake \/ FftLockBuf \/ FftSkip
    \/ FftRead(profiles) \/ FftLockSpec \/ FftPublish
    \/ UiPlay(maxTracks) \/ UiClearLockBuf \/ UiClearBuf \/ UiClearLockSpec
    \/ UiClearSpec \/ UiOpenFail \/ UiOpen \/ UiAppend
    \/ UiSpectrumLock \/ UiSpectrumBar \/ UiSpectrumEnd

\* long streams that overflow the buffer; every window holds the tone
Next == Pipeline(MaxSamples, MaxTracks, MaxPublish, {Tone})

Spec == Init /\ [][Next]_vars

\* short streams, several publications of either window content
NextSnap == Pipeline(SnapSamples, SnapTracks, SnapPublish, DbProfiles)

\* ------------------------------------------------- gain store: EqGains, App

Abs(x) == IF x < 0 THEN -x ELSE x

\* f32::round: to the nearest integer, halves away from zero
RoundDiv(x, d) ==
    IF x >= 0 THEN (x + d \div 2) \div d ELSE -((-x + d \div 2) \div d)

\* the cast without the round(): toward zero
TruncDiv(x, d) == IF x >= 0 THEN x \div d ELSE -((-x) \div d)

\* the gain is stored without either clamp
CentiUnclamped(g) == RoundDiv(g, 10)

\* the gain is cast to i32 without being rounded first
CentiTruncated(g) ==
    Clamp(TruncDiv(Clamp(g, -12000, 12000), 10), MIN_CENTI_DB, MAX_CENTI_DB)

\* eq.rs:39-40 (and :45-46, :51-52): (db.clamp(-12.0, 12.0) * 100.0).round()
\* as i32, clamped to MIN_CENTI_DB..MAX_CENTI_DB
Centi(g) ==
    Clamp(RoundDiv(Clamp(g, -12000, 12000), 10), MIN_CENTI_DB, MAX_CENTI_DB)

\* eq.rs:37 (and :43, :49): load(Relaxed) as f32 * 0.01
BandDb(b) == gains[b] * 10

\* eq.rs:38-53, set_bass_db / set_mid_db / set_treble_db
Store(b, g) ==
    /\ srcPc # "panic"
    /\ writes < MaxWrites
    /\ gains' = [gains EXCEPT ![b] = Centi(g)]
    /\ written' = [written EXCEPT ![b] = @ \cup {Centi(g)}]
    /\ lastSet' = [band |-> b, g |-> g, before |-> gains]
    /\ writes' = writes + 1

\* gains a caller can request, in 1/1000 dB: beyond both ends of the range,
\* and between two steps of 0.01 dB
GainInputs == {-20000, -1236, 994, 12004, 20000}

\* eq.rs:38-53 called with any gain
SetDb ==
    /\ \E b \in BandSet, g \in GainInputs : Store(b, g)
    /\ UNCHANGED <<selBand, loaded, vizVars, srcVars, binVars, decVars, appVars, seekVars>>

\* app.rs:339-350
EqBandUp ==
    /\ Store(Bands[selBand + 1], Min(BandDb(Bands[selBand + 1]) + 1000, 12000))
    /\ UNCHANGED <<selBand, loaded, vizVars, srcVars, binVars, decVars, appVars, seekVars>>

\* app.rs:352-363
EqBandDown ==
    /\ Store(Bands[selBand + 1], Max(BandDb(Bands[selBand + 1]) - 1000, -12000))
    /\ UNCHANGED <<selBand, loaded, vizVars, srcVars, binVars, decVars, appVars, seekVars>>

\* app.rs:321-323
EqSelectPrevBand ==
    /\ srcPc # "panic"
    /\ selBand' = Max(selBand - 1, 0)
    /\ UNCHANGED <<gains, loaded, writes, lastSet, written, vizVars, srcVars, binVars, decVars, appVars, seekVars>>

\* app.rs:325-327
EqSelectNextBand ==
    /\ srcPc # "panic"
    /\ selBand' = Min(selBand + 1, Len(Bands) - 1)
    /\ UNCHANGED <<gains, loaded, writes, lastSet, written, vizVars, srcVars, binVars, decVars, appVars, seekVars>>

\* eq.rs:55-57, load_centi: one Relaxed load per step, bass, mid, treble
LoadCentiStep ==
    /\ Len(loaded) < Len(Bands)
    /\ loaded' = Append(loaded, gains[Bands[Len(loaded) + 1]])
    /\ UNCHANGED <<gains, selBand, writes, lastSet, written, vizVars, srcVars, binVars, decVars, appVars, seekVars>>

\* eq.rs:57: the triple is returned
LoadCentiReturn ==
    /\ Len(loaded) = Len(Bands)
    /\ loaded' = <<>>
    /\ UNCHANGED <<gains, selBand, writes, lastSet, written, vizVars, srcVars, binVars, decVars, appVars, seekVars>>

NextEq ==
    \/ SetDb \/ EqBandUp \/ EqBandDown \/ EqSelectPrevBand \/ EqSelectNextBand
    \/ LoadCentiStep \/ LoadCentiReturn

SpecEq == Init /\ [][NextEq]_vars

\* ------------------------------------------- equalizer stage: EqSource --

BandIdx(b) == CHOOSE i \in 1..Len(Bands) : Bands[i] = b

\* the triple (b, m, t) of load_centi as one value per band
AsGains(t) == [b \in BandSet |-> t[BandIdx(b)]]

ZeroDelay == [b \in BandSet |-> 0]

\* the sets of bands for which one round of derivations can fail: none, or
\* the mid band
FailSets == {{}, {"mid"}}

\* eq.rs:60-62, make_peaking: Some(coefficients for gain g), here <<g>>, or
\* None, here <<>>, when from_params returns Err; bad holds the bands for
\* which it does in this round
MakePeaking(bad, b, g) == IF b \in bad THEN <<>> ELSE <<g>>

\* eq.rs:64-68, flat_coeffs: when make_peaking fails the closure makes the same
\* call again and unwraps its result; <<>> stands for the panic of that unwrap
FlatCoeffs(bad, b) ==
    IF MakePeaking(bad, b, 0) # <<>> THEN MakePeaking(bad, b, 0)
                                     ELSE MakePeaking(bad, b, 0)

\* a failed derivation puts the band back to flat
UpdateBandFlat(old, c) == IF c # <<>> THEN c[1] ELSE 0

\* eq.rs:71-73, if let Some(c) = make_peaking(..) { update_coefficients(c) }
UpdateBand(old, c) == IF c # <<>> THEN c[1] ELSE old

\* the gain check comes one sample late
AtBoundaryLate(n) == n > COEF_UPDATE_INTERVAL

\* the gain check is made on every sample
AtBoundaryAlways(n) == TRUE

\* eq.rs:110, the negation of n < COEF_UPDATE_INTERVAL
AtBoundary(n) == n >= COEF_UPDATE_INTERVAL

\* the delay state survives the seek
ResetStateKept(d) == d

\* eq.rs:135-137, reset_state()
ResetState(d) == 0

\* player.rs:61 and eq.rs:88-106, EqSource::new on the UI thread, which is
\* also the only writer of the gains: flat coefficients for each band, then
\* update_coeffs with the stored triple. A derivation at gain 0 is the call
\* flat_coeffs has just made, so it cannot fail here.
EqSourceNew ==
    /\ srcPc \in {"none", "idle"}
    /\ \E badFlat \in FailSets, bad \in FailSets :
          IF \E b \in BandSet : FlatCoeffs(badFlat, b) = <<>>
          THEN /\ srcPc' = "panic"
               /\ UNCHANGED <<srcN, lastGains, coef, delay, stale, lastBuild,
                              seeked>>
          ELSE /\ bad \subseteq {b \in BandSet : gains[b] # 0}
               /\ coef' = [b \in BandSet |->
                             UpdateBand(FlatCoeffs(badFlat, b)[1],
                                        MakePeaking(bad, b, gains[b]))]
               /\ stale' = bad
               /\ lastGains' = gains
               /\ lastBuild' = "new"
               /\ srcN' = 0
               /\ delay' = ZeroDelay
               /\ seeked' = TRUE
               /\ srcPc' = "idle"
    /\ UNCHANGED <<seenWrites, sinceWrite>>
    /\ UNCHANGED <<eqVars, vizVars, binVars, decVars, appVars, seekVars>>

\* eq.rs:123 and :109-111: the inner stream yields a sample, n += 1, return
\* from maybe_update unless n has reached the interval, else n = 0
EqNext ==
    /\ srcPc = "idle"
    /\ IF AtBoundary(srcN + 1)
       THEN srcN' = 0 /\ srcPc' = "load"
       ELSE srcN' = srcN + 1 /\ srcPc' = "run"
    /\ seenWrites' = writes
    /\ sinceWrite' = IF writes # seenWrites THEN 1
                     ELSE Min(sinceWrite + 1, COEF_UPDATE_INTERVAL)
    /\ UNCHANGED <<lastGains, coef, delay, stale, lastBuild, seeked>>
    /\ UNCHANGED <<eqVars, vizVars, binVars, decVars, appVars, seekVars>>

\* eq.rs:112, self.gains.load_centi(), one load at a time
EqLoad ==
    /\ srcPc = "load"
    /\ LoadCentiStep

\* eq.rs:113-116: return if the triple is the one last used, else keep it
\* and derive the three bands' coefficients from it
EqRefresh ==
    /\ srcPc = "load"
    /\ Len(loaded) = Len(Bands)
    /\ IF AsGains(loaded) = lastGains
       THEN UNCHANGED <<lastGains, coef, stale, lastBuild>>
       ELSE /\ lastGains' = AsGains(loaded)
            /\ lastBuild' = "refresh"
            /\ \E bad \in FailSets :
                  /\ stale' = bad
                  /\ coef' = [b \in BandSet |->
                        UpdateBand(coef[b],
                                   MakePeaking(bad, b, AsGains(loaded)[b]))]
    /\ loaded' = <<>>
    /\ srcPc' = "run"
    /\ UNCHANGED <<srcN, delay, seeked, seenWrites, sinceWrite>>
    /\ UNCHANGED <<gains, selBand, writes, lastSet, written>>
    /\ UNCHANGED <<vizVars, binVars, decVars, appVars, seekVars>>

\* eq.rs:125: the sample runs through the three filters and is returned
EqRun ==
    /\ srcPc = "run"
    /\ delay' = [b \in BandSet |-> 1]
    /\ seeked' = FALSE
    /\ srcPc' = "idle"
    /\ UNCHANGED <<srcN, lastGains, coef, stale, lastBuild, seenWrites,
                   sinceWrite>>
    /\ UNCHANGED <<eqVars, vizVars, binVars, decVars, appVars, seekVars>>

\* eq.rs:134-139, try_seek (&mut self: never while next() is running)
EqTrySeek ==
    /\ srcPc = "idle"
    /\ delay' = [b \in BandSet |-> ResetState(delay[b])]
    /\ seeked' = TRUE
    /\ UNCHANGED <<srcPc, srcN, lastGains, coef, stale, lastBuild, seenWrites,
                   sinceWrite>>
    /\ UNCHANGED <<eqVars, vizVars, binVars, decVars, appVars, seekVars>>

\* the equalizer stage on the audio thread, and on the UI thread the popup's
\* keys that select a band and raise its gain (SpecEq has every writer)
NextEqSrc ==
    \/ EqBandUp \/ EqSelectPrevBand \/ EqSelectNextBand
    \/ EqSourceNew \/ EqNext \/ EqLoad \/ EqRefresh \/ EqRun \/ EqTrySeek

SpecEqSrc == Init /\ [][NextEqSrc]_vars

SpecSnap == Init /\ [][NextSnap]_vars

\* ------------------------------------------------------------- shutdown --

\* a run in which the owner drops the analyser at some point
NextDown ==
    \/ Pipeline(DownSamples, DownTracks, DownPublish, {Tone})
    \/ DropStore \/ DropJoin

SpecDown == Init /\ [][NextDown]_vars

\* the analyser thread and the thread joining it keep running, a thread that
\* waits for a mutex gets it if it is free again and again, and the audio
\* thread leaves the critical section it has entered
FairDown ==
    /\ WF_vars(FftLoop(DownPublish))
    /\ WF_vars(FftWake)
    /\ SF_vars(FftLockBuf)
    /\ WF_vars(FftSkip)
    /\ WF_vars(FftRead({Tone}))
    /\ SF_vars(FftLockSpec)
    /\ WF_vars(FftPublish)
    /\ WF_vars(AudioPush)
    /\ WF_vars(AudioDrain)
    /\ WF_vars(DropJoin)

SpecDownLive == SpecDown /\ FairDown

\* --------------------------------------------------- sustained playback --

\* Playback that does not end: the inner stream always has a next sample, so
\* its samples are not told apart and the per-sample histories are left alone.

PlayTracks == 1

PlayPublish == 1

\* channel counts of the files played: mono, stereo, and more channels than
\* BUFFER_CAP / FFT_SIZE
PlayChans == {1, 2, 5}

\* visualizer.rs:45: the inner stream yields its next sample
TapPull ==
    /\ audPc = "idle"
    /\ UNCHANGED <<eqVars, srcVars, binVars, decVars, appVars, seekVars>>
    /\ sinkSrc # 0
    /\ audSample' = <<sinkSrc, 1>>
    /\ audPc' = "try"
    /\ UNCHANGED <<sharedVars, fftVars, uiVars, histVars>>

\* visualizer.rs:47 and, when the lock is busy, :53-54
TapTry ==
    /\ audPc = "try"
    /\ UNCHANGED <<eqVars, srcVars, binVars, decVars, appVars, seekVars>>
    /\ TapLock(bufLock) # "wait"
    /\ IF TapLock(bufLock) = "acquired"
       THEN /\ bufLock' = "audio"
            /\ audPc' = "push"
            /\ UNCHANGED audSample
       ELSE /\ audPc' = "idle"
            /\ audSample' = NoSample
            /\ UNCHANGED bufLock
    /\ UNCHANGED <<buf, spectrum, specLock, channels, running, sinkSrc, tracks,
                   pos>>
    /\ UNCHANGED <<fftVars, uiVars, histVars>>

\* visualizer.rs:48
TapPush ==
    /\ audPc = "push"
    /\ UNCHANGED <<eqVars, srcVars, binVars, decVars, appVars, seekVars>>
    /\ buf' = PushBack(buf, audSample)
    /\ audPc' = "drain"
    /\ UNCHANGED <<bufLock, spectrum, specLock, channels, running, sinkSrc,
                   tracks, pos, audSample>>
    /\ UNCHANGED <<fftVars, uiVars, histVars>>

\* visualizer.rs:49-54: evict, drop the guard, return the sample
TapDrain ==
    /\ audPc = "drain"
    /\ UNCHANGED <<eqVars, srcVars, binVars, decVars, appVars, seekVars>>
    /\ buf' = Drain(buf)
    /\ bufLock' = Free
    /\ audPc' = "idle"
    /\ audSample' = NoSample
    /\ UNCHANGED <<spectrum, specLock, channels, running, sinkSrc, tracks, pos>>
    /\ UNCHANGED <<fftVars, uiVars, histVars>>

\* player.rs:52-57: the file decodes, set_channels(source.channels())
UiOpenAny(counts) ==
    /\ uiPc = "open"
    /\ UNCHANGED <<eqVars, srcVars, binVars, decVars, appVars, seekVars>>
    /\ \E ch \in counts : channels' = ch
    /\ uiPc' = "append"
    /\ UNCHANGED <<buf, bufLock, spectrum, specLock, running, sinkSrc, tracks,
                   pos>>
    /\ UNCHANGED rdAcc
    /\ UNCHANGED <<audVars, fftVars, histVars>>

NextPlay ==
    \/ TapPull \/ TapTry \/ TapPush \/ TapDrain
    \/ FftLoop(PlayPublish) \/ FftWake \/ FftLockBuf \/ FftSkip
    \/ FftRead({Tone}) \/ FftLockSpec \/ FftPublish
    \/ UiPlay(PlayTracks) \/ UiClearLockBuf \/ UiClearBuf \/ UiClearLockSpec
    \/ UiClearSpec \/ UiOpenFail \/ UiOpenAny(PlayChans) \/ UiAppend
    \/ UiSpectrumLock \/ UiSpectrumBar \/ UiSpectrumEnd

SpecPlay == Init /\ [][NextPlay]_vars

\* Every thread keeps running: a step that only waits for its own thread is
\* weakly fair, a blocking lock() is strongly fair (the lock is granted when
\* it is free again and again), and so is the case of try_lock() finding the
\* lock free. Whether the user presses a key, and whether a file decodes,
\* is not a matter of scheduling.
FairPlay ==
    /\ WF_vars(TapPush)
    /\ WF_vars(TapDrain)
    /\ WF_vars(FftLoop(PlayPublish))
    /\ WF_vars(FftWake)
    /\ SF_vars(FftLockBuf)
    /\ WF_vars(FftSkip)
    /\ WF_vars(FftRead({Tone}))
    /\ SF_vars(FftLockSpec)
    /\ WF_vars(FftPublish)
    /\ SF_vars(UiClearLockBuf)
    /\ WF_vars(UiClearBuf)
    /\ SF_vars(UiClearLockSpec)
    /\ WF_vars(UiClearSpec)
    /\ WF_vars(UiSpectrumBar)
    /\ WF_vars(UiSpectrumEnd)

SpecPlayLive == SpecPlay /\ FairPlay

\* ------------------------------------- bar-to-bin mapping of fft_loop --

\* whole numbers beyond the machine integers, as digits to the base Base,
\* lowest digit first
Base == 10000

RECURSIVE BigTimes(_, _, _)
\* the number a times the digit k, plus the carry c
BigTimes(a, k, c) ==
    IF a = <<>> THEN (IF c = 0 THEN <<>> ELSE <<c>>)
    ELSE <<(Head(a) * k + c) % Base>>
             \o BigTimes(Tail(a), k, (Head(a) * k + c) \div Base)

RECURSIVE BigPow(_, _)
\* k to the power n
BigPow(k, n) == IF n = 0 THEN <<1>> ELSE BigTimes(BigPow(k, n - 1), k, 0)

RECURSIVE BigLe(_, _)
\* a <= b
BigLe(a, b) ==
    IF Len(a) # Len(b) THEN Len(a) < Len(b)
    ELSE IF a = <<>> THEN TRUE
    ELSE IF a[Len(a)] # b[Len(b)] THEN a[Len(a)] < b[Len(b)]
    ELSE BigLe(SubSeq(a, 1, Len(a) - 1), SubSeq(b, 1, Len(b) - 1))

RECURSIVE Root(_, _, _, _)
\* the largest k in lo..hi with k^n <= target
Root(lo, hi, n, target) ==
    IF lo = hi THEN lo
    ELSE IF BigLe(BigPow((lo + hi + 1) \div 2, n), target)
         THEN Root((lo + hi + 1) \div 2, hi, n, target)
         ELSE Root(lo, (lo + hi + 1) \div 2 - 1, n, target)

\* visualizer.rs:218-221, ((half as f64).powf(i as f64 / NUM_BARS as f64)) as
\* usize: the integer part of half^(i/n), that is the largest k with
\* k^n <= half^i
Edge(half, i, n) == Root(1, half, n, BigPow(half, i))

\* visualizer.rs:222, lo.max(1).min(half - 1)
ClampLo(lo, half) == Min(Max(lo, 1), half - 1)

\* hi clamped to the spectrum only, never widened past lo
ClampHiRaw(hi, lo, half) == Min(hi, half)

\* visualizer.rs:223, hi.max(lo + 1).min(half)
ClampHi(hi, lo, half) == Min(Max(hi, lo + 1), half)

\* half = FFT_SIZE / 2 (visualizer.rs:211) and NUM_BARS: the sizes of the
\* source, and small ones
Halves == {16, 1024}

BarCounts == {4, 32}

\* visualizer.rs:211, :215: an iteration reaches the mapping of bars to bins
BinStart ==
    /\ binPc = "start"
    /\ \E h \in Halves, n \in BarCounts : binHalf' = h /\ binBars' = n
    /\ binPc' = "lo"
    /\ UNCHANGED <<binI, binLo, binHi, binRanges>>
    /\ UNCHANGED <<vizVars, eqVars, srcVars, decVars, appVars, seekVars>>

\* visualizer.rs:218-219, :222: lo of bar binI
BinLo ==
    /\ binPc = "lo"
    /\ binLo' = ClampLo(Edge(binHalf, binI, binBars), binHalf)
    /\ binPc' = "hi"
    /\ UNCHANGED <<binHalf, binBars, binI, binHi, binRanges>>
    /\ UNCHANGED <<vizVars, eqVars, srcVars, decVars, appVars, seekVars>>

\* visualizer.rs:220-221, :223: hi of bar binI
BinHi ==
    /\ binPc = "hi"
    /\ binHi' = ClampHi(Edge(binHalf, binI + 1, binBars), binLo, binHalf)
    /\ binPc' = "sum"
    /\ UNCHANGED <<binHalf, binBars, binI, binLo, binRanges>>
    /\ UNCHANGED <<vizVars, eqVars, srcVars, decVars, appVars, seekVars>>

\* visualizer.rs:225-226: the bar is the average of magnitudes[lo..hi]; on to
\* the next bar
BinSum ==
    /\ binPc = "sum"
    /\ binRanges' = Append(binRanges, <<binLo, binHi>>)
    /\ binI' = binI + 1
    /\ binPc' = IF binI + 1 < binBars THEN "lo" ELSE "done"
    /\ UNCHANGED <<binHalf, binBars, binLo, binHi>>
    /\ UNCHANGED <<vizVars, eqVars, srcVars, decVars, appVars, seekVars>>

NextBins == BinStart \/ BinLo \/ BinHi \/ BinSum

SpecBins == Init /\ [][NextBins]_vars

\* ------------------------------------- smoothing over successive windows --

\* visualizer.rs:44-55: the tap has replaced the window's samples, by louder
\* or by silent ones
DecayWindow ==
    /\ \E db \in DbProfiles : db # dWin /\ dWin' = db
    /\ UNCHANGED <<dPrev, dSpec>>
    /\ UNCHANGED <<vizVars, eqVars, srcVars, binVars, appVars, seekVars>>

\* visualizer.rs:186-245: one full iteration over the window: the bars from
\* prev and the window's levels, prev = new_spec, the snapshot replaced
DecayIterate ==
    /\ dPrev' = NewSpec(dPrev, dWin)
    /\ dSpec' = dPrev'
    /\ UNCHANGED dWin
    /\ UNCHANGED <<vizVars, eqVars, srcVars, binVars, appVars, seekVars>>

NextDecay == DecayWindow \/ DecayIterate

SpecDecay == Init /\ [][NextDecay]_vars

\* visualizer.rs:172-173: the analyser thread iterates for as long as it runs
SpecDecayLive == SpecDecay /\ WF_vars(DecayIterate)

\* ------------------------------------------------ App: the track list --

MaxSongs == 3

RepeatModes == {"Off", "All", "One"}

\* outcomes of Player::play_file_from: Ok; Err from File::open or
\* Decoder::new; Err from Sink::try_new
PlayResults == {"ok", "nofile", "nosink"}

\* player.position() in milliseconds, as prev_track may find it
Positions == {0, 3000, 3500, 4000}

\* Duration::as_secs: whole seconds
AsSecs(ms) == ms \div 1000

\* app.rs:179: restart only when the position is that many seconds in
RestartAfter == 3

\* the index of the next row is not held below the length
SelectNextUnbounded(sel, n) == sel + 1

\* app.rs:201, (self.selected + 1).min(self.songs.len() - 1)
SelectNext(sel, n) == Min(sel + 1, n - 1)

\* app.rs:208, self.selected.saturating_sub(1)
SelectPrev(sel) == Max(sel - 1, 0)

\* the successor index does not wrap
NextAllNoWrap(idx, n) == idx + 1

\* app.rs:259, (idx + 1) % self.songs.len()
NextAll(idx, n) == (idx + 1) % n

\* app.rs:244-248
NextRepeat(r) ==
    CASE r = "Off" -> "All"
      [] r = "All" -> "One"
      [] r = "One" -> "Off"

\* player.rs:47-65: the old sink is stopped first. Sink::try_new failing
\* leaves that stopped sink in place; otherwise the sink is a new one, not
\* paused, and it holds a source only when the file was opened and decoded.
SinkAfter(res, paused) ==
    [empty |-> res # "ok",
     paused |-> IF res = "nosink" THEN paused ELSE FALSE]

\* every operation is recorded, with nothing handed to the player yet
Op(name) ==
    /\ appPc = "run"
    /\ appOp' = name
    /\ appSeq' = 1 - appSeq

\* the player is called for songs[idx]
StartFile(idx, res) ==
    /\ started' = idx
    /\ sinkEmpty' = SinkAfter(res, sinkPaused).empty
    /\ sinkPaused' = SinkAfter(res, sinkPaused).paused

NoStart ==
    /\ started' = None
    /\ UNCHANGED <<sinkEmpty, sinkPaused>>

\* app.rs:138-142, play_index
PlayIndex(idx, res) ==
    IF idx < songsLen
    THEN /\ StartFile(idx, res)
         /\ nowPlaying' = IF res = "ok" THEN idx ELSE nowPlaying
    ELSE /\ NoStart
         /\ UNCHANGED nowPlaying

\* app.rs:191-193 and its like: selected = i, list_state.select(Some(i)),
\* play_index(i)
SelectAndPlay(i, res) ==
    /\ selected' = i
    /\ listSel' = i
    /\ PlayIndex(i, res)

\* app.rs:70-88, App::new over the scanned directory; player.rs:27
AppNew ==
    /\ appPc = "new"
    /\ appPc' = "run"
    /\ \E n \in 0..MaxSongs :
          /\ songsLen' = n
          /\ listSel' = IF n > 0 THEN 0 ELSE None
    /\ selected' = 0
    /\ nowPlaying' = None
    /\ repeat' = "Off"
    /\ sinkEmpty' = TRUE
    /\ sinkPaused' = TRUE
    /\ appOp' = "new"
    /\ appSeq' = 1 - appSeq
    /\ UNCHANGED <<started, seenPos>>
    /\ UNCHANGED <<vizVars, eqVars, srcVars, binVars, decVars, seekVars>>

\* app.rs:132-136, play_selected (Enter)
AppPlaySelected ==
    /\ Op("play")
    /\ \E res \in PlayResults :
          IF songsLen > 0
          THEN PlayIndex(selected, res)
          ELSE NoStart /\ UNCHANGED nowPlaying
    /\ seenPos' = 0
    /\ UNCHANGED <<appPc, songsLen, selected, repeat, listSel>>
    /\ UNCHANGED <<vizVars, eqVars, srcVars, binVars, decVars, seekVars>>

\* app.rs:150-170, next_track (n)
AppNextTrack ==
    /\ Op("next")
    /\ \E res \in PlayResults :
          IF songsLen = 0
          THEN NoStart /\ UNCHANGED <<nowPlaying, selected, listSel>>
          ELSE IF nowPlaying = None
          THEN PlayIndex(selected, res) /\ UNCHANGED <<selected, listSel>>
          ELSE IF nowPlaying + 1 >= songsLen
          THEN IF repeat = "All"
               THEN SelectAndPlay(0, res)
               ELSE NoStart /\ UNCHANGED <<nowPlaying, selected, listSel>>
          ELSE SelectAndPlay(nowPlaying + 1, res)
    /\ seenPos' = 0
    /\ UNCHANGED <<appPc, songsLen, repeat>>
    /\ UNCHANGED <<vizVars, eqVars, srcVars, binVars, decVars, seekVars>>

\* app.rs:172-197, prev_track (p)
AppPrevTrack ==
    /\ Op("prev")
    /\ \E res \in PlayResults, ms \in Positions :
          IF songsLen = 0
          THEN /\ NoStart /\ UNCHANGED <<nowPlaying, selected, listSel>>
               /\ seenPos' = 0
          ELSE IF nowPlaying = None
          THEN /\ PlayIndex(selected, res) /\ UNCHANGED <<selected, listSel>>
               /\ seenPos' = 0
          ELSE /\ seenPos' = ms
               /\ IF AsSecs(ms) > RestartAfter
                  THEN PlayIndex(nowPlaying, res) /\ UNCHANGED <<selected, listSel>>
                  ELSE IF nowPlaying = 0
                  THEN IF repeat = "All"
                       THEN SelectAndPlay(songsLen - 1, res)
                       ELSE NoStart /\ UNCHANGED <<nowPlaying, selected, listSel>>
                  ELSE SelectAndPlay(nowPlaying - 1, res)
    /\ UNCHANGED <<appPc, songsLen, repeat>>
    /\ UNCHANGED <<vizVars, eqVars, srcVars, binVars, decVars, seekVars>>

\* app.rs:199-204, select_next (Down, j)
AppSelectNext ==
    /\ Op("select_next")
    /\ IF songsLen > 0
       THEN /\ selected' = SelectNext(selected, songsLen)
            /\ listSel' = selected'
       ELSE UNCHANGED <<selected, listSel>>
    /\ NoStart
    /\ seenPos' = 0
    /\ UNCHANGED <<appPc, songsLen, nowPlaying, repeat>>
    /\ UNCHANGED <<vizVars, eqVars, srcVars, binVars, decVars, seekVars>>

\* app.rs:206-211, select_prev (Up, k)
AppSelectPrev ==
    /\ Op("select_prev")
    /\ IF songsLen > 0
       THEN /\ selected' = SelectPrev(selected)
            /\ listSel' = selected'
       ELSE UNCHANGED <<selected, listSel>>
    /\ NoStart
    /\ seenPos' = 0
    /\ UNCHANGED <<appPc, songsLen, nowPlaying, repeat>>
    /\ UNCHANGED <<vizVars, eqVars, srcVars, binVars, decVars, seekVars>>

\* app.rs:223-232, seek_forward (Right): the file is started again from the
\* new position and the result is ignored
AppSeekForward ==
    /\ Op("seek_forward")
    /\ \E res \in PlayResults :
          IF nowPlaying = None THEN NoStart ELSE StartFile(nowPlaying, res)
    /\ seenPos' = 0
    /\ UNCHANGED <<appPc, songsLen, selected, nowPlaying, repeat, listSel>>
    /\ UNCHANGED <<vizVars, eqVars, srcVars, binVars, decVars, seekVars>>

\* app.rs:234-241, seek_backward (Left)
AppSeekBackward ==
    /\ Op("seek_backward")
    /\ \E res \in PlayResults :
          IF nowPlaying = None THEN NoStart ELSE StartFile(nowPlaying, res)
    /\ seenPos' = 0
    /\ UNCHANGED <<appPc, songsLen, selected, nowPlaying, repeat, listSel>>
    /\ UNCHANGED <<vizVars, eqVars, srcVars, binVars, decVars, seekVars>>

\* app.rs:243-249, toggle_repeat (r)
AppToggleRepeat ==
    /\ Op("repeat")
    /\ repeat' = NextRepeat(repeat)
    /\ NoStart
    /\ seenPos' = 0
    /\ UNCHANGED <<appPc, songsLen, selected, nowPlaying, listSel>>
    /\ UNCHANGED <<vizVars, eqVars, srcVars, binVars, decVars, seekVars>>

\* app.rs:144-148 and player.rs:73-79, toggle_pause (space)
AppTogglePause ==
    /\ Op("pause")
    /\ sinkPaused' = IF nowPlaying # None THEN ~sinkPaused ELSE sinkPaused
    /\ started' = None
    /\ seenPos' = 0
    /\ UNCHANGED <<appPc, songsLen, selected, nowPlaying, repeat, listSel,
                   sinkEmpty>>
    /\ UNCHANGED <<vizVars, eqVars, srcVars, binVars, decVars, seekVars>>

\* app.rs:251-275, check_track_end, called every tick (main.rs:63-66)
AppCheckTrackEnd ==
    /\ Op("tick")
    /\ \E res \in PlayResults :
          IF nowPlaying = None \/ ~sinkEmpty \/ sinkPaused
          THEN NoStart /\ UNCHANGED <<nowPlaying, selected, listSel>>
          ELSE CASE repeat = "One" ->
                      PlayIndex(nowPlaying, res) /\ UNCHANGED <<selected, listSel>>
                 [] repeat = "All" ->
                      SelectAndPlay(NextAll(nowPlaying, songsLen), res)
                 [] repeat = "Off" ->
                      IF nowPlaying + 1 < songsLen
                      THEN SelectAndPlay(nowPlaying + 1, res)
                      ELSE /\ nowPlaying' = None
                           /\ NoStart
                           /\ UNCHANGED <<selected, listSel>>
    /\ seenPos' = 0
    /\ UNCHANGED <<appPc, songsLen, repeat>>
    /\ UNCHANGED <<vizVars, eqVars, srcVars, binVars, decVars, seekVars>>

\* the audio thread has pulled the last sample of the source: the sink is
\* empty (player.rs:97-99 then answers true)
SinkDrains ==
    /\ appPc = "run"
    /\ ~sinkEmpty
    /\ ~sinkPaused
    /\ sinkEmpty' = TRUE
    /\ UNCHANGED <<appPc, songsLen, selected, nowPlaying, repeat, listSel,
                   sinkPaused, appOp, appSeq, started, seenPos>>
    /\ UNCHANGED <<vizVars, eqVars, srcVars, binVars, decVars, seekVars>>

NextApp ==
    \/ AppNew \/ AppPlaySelected \/ AppNextTrack \/ AppPrevTrack
    \/ AppSelectNext \/ AppSelectPrev \/ AppSeekForward \/ AppSeekBackward
    \/ AppToggleRepeat \/ AppTogglePause \/ AppCheckTrackEnd \/ SinkDrains

SpecApp == Init /\ [][NextApp]_vars

\* ------------------------------------------------------ App: seeking --

SeekSongs == 2

\* seeking forward is tried up to this position (seconds)
MaxPos == 6

\* how long the scanned files play (seconds)
Lengths == {3, 8}

\* app.rs:226 and :237, Duration::from_secs(5)
SEEK_STEP == 5

\* player.rs:85-87, position()
Position == playbackStart + sinkPos

\* the new position is not held at the end of the track
ForwardStartUncapped(at, dur) == at + SEEK_STEP

\* app.rs:226-228: (pos + 5 s).min(current_duration().unwrap_or(MAX))
ForwardStart(at, dur) ==
    IF dur = None THEN at + SEEK_STEP ELSE Min(at + SEEK_STEP, dur)

\* app.rs:237, pos.saturating_sub(Duration::from_secs(5))
BackwardStart(at) == Max(at - SEEK_STEP, 0)

\* player.rs:47-50: Sink::try_new failing returns before playback_start is
\* written and leaves the stopped sink, whose get_pos() is not specified to
\* be reset; otherwise playback_start = start and the sink is a new one
PlayerFrom(start, res) ==
    /\ playbackStart' = IF res = "nosink" THEN playbackStart ELSE start
    /\ sinkPos' \in (IF res = "nosink" THEN {0, sinkPos} ELSE {0})

\* app.rs:70-88 and :90-130: App::new over a scanned directory; every file
\* has a length, and a duration only when its decoder reports one
\* (player.rs:106-111)
SeekNew ==
    /\ appPc = "new"
    /\ appPc' = "run"
    /\ \E n \in 0..SeekSongs :
          /\ songsLen' = n
          /\ listSel' = IF n > 0 THEN 0 ELSE None
          /\ \E lens \in [1..n -> Lengths], known \in [1..n -> BOOLEAN] :
                /\ songLens' = lens
                /\ songDurs' = [i \in 1..n |->
                                   IF known[i] THEN lens[i] ELSE None]
    /\ selected' = 0
    /\ nowPlaying' = None
    /\ repeat' = "Off"
    /\ sinkEmpty' = TRUE
    /\ sinkPaused' = TRUE
    /\ appOp' = "new"
    /\ appSeq' = 1 - appSeq
    /\ UNCHANGED <<started, seenPos, playbackStart, sinkPos, seekPos>>
    /\ UNCHANGED <<vizVars, eqVars, srcVars, binVars, decVars>>

\* app.rs:132-142 with player.rs:40-42: play_selected starts the file at 0
SeekPlaySelected ==
    /\ Op("play")
    /\ \E res \in PlayResults :
          IF songsLen > 0
          THEN PlayIndex(selected, res) /\ PlayerFrom(0, res)
          ELSE /\ NoStart
               /\ UNCHANGED <<nowPlaying, playbackStart, sinkPos>>
    /\ seenPos' = 0
    /\ seekPos' = 0
    /\ UNCHANGED <<appPc, songsLen, selected, repeat, listSel>>
    /\ UNCHANGED <<songLens, songDurs>>
    /\ UNCHANGED <<vizVars, eqVars, srcVars, binVars, decVars>>

\* app.rs:223-232, seek_forward (Right)
SeekForward ==
    /\ Op("seek_forward")
    /\ Position <= MaxPos
    /\ \E res \in PlayResults :
          IF nowPlaying = None
          THEN /\ NoStart
               /\ UNCHANGED <<playbackStart, sinkPos, seekPos>>
          ELSE /\ StartFile(nowPlaying, res)
               /\ PlayerFrom(ForwardStart(Position, songDurs[nowPlaying + 1]),
                             res)
               /\ seekPos' = Position
    /\ seenPos' = 0
    /\ UNCHANGED <<appPc, songsLen, selected, nowPlaying, repeat, listSel>>
    /\ UNCHANGED <<songLens, songDurs>>
    /\ UNCHANGED <<vizVars, eqVars, srcVars, binVars, decVars>>

\* app.rs:234-241, seek_backward (Left)
SeekBackward ==
    /\ Op("seek_backward")
    /\ \E res \in PlayResults :
          IF nowPlaying = None
          THEN /\ NoStart
               /\ UNCHANGED <<playbackStart, sinkPos, seekPos>>
          ELSE /\ StartFile(nowPlaying, res)
               /\ PlayerFrom(BackwardStart(Position), res)
               /\ seekPos' = Position
    /\ seenPos' = 0
    /\ UNCHANGED <<appPc, songsLen, selected, nowPlaying, repeat, listSel>>
    /\ UNCHANGED <<songLens, songDurs>>
    /\ UNCHANGED <<vizVars, eqVars, srcVars, binVars, decVars>>

\* one second of the file is played: sink.get_pos() advances
\* (player.rs:59: the source appended is the file after skip_duration(start))
SeekElapse ==
    /\ appPc = "run"
    /\ nowPlaying # None
    /\ ~sinkEmpty
    /\ ~sinkPaused
    /\ Position < songLens[nowPlaying + 1]
    /\ sinkPos' = sinkPos + 1
    /\ UNCHANGED <<songLens, songDurs, playbackStart, seekPos>>
    /\ UNCHANGED appVars
    /\ UNCHANGED <<vizVars, eqVars, srcVars, binVars, decVars>>

\* nothing of the file is left after the position: the sink is empty
SeekDrain ==
    /\ appPc = "run"
    /\ nowPlaying # None
    /\ ~sinkEmpty
    /\ ~sinkPaused
    /\ Position >= songLens[nowPlaying + 1]
    /\ sinkEmpty' = TRUE
    /\ UNCHANGED <<appPc, songsLen, selected, nowPlaying, repeat, listSel,
                   sinkPaused, appOp, appSeq, started, seenPos>>
    /\ UNCHANGED seekVars
    /\ UNCHANGED <<vizVars, eqVars, srcVars, binVars, decVars>>

NextSeek ==
    \/ SeekNew \/ SeekPlaySelected \/ SeekForward \/ SeekBackward
    \/ SeekElapse \/ SeekDrain
    \/ AppSelectNext \/ AppSelectPrev \/ AppTogglePause

SpecSeek == Init /\ [][NextSeek]_vars

\* ---------------------------------------------------------------- claims --

Range(q) == {q[i] : i \in 1..Len(q)}

Front(q) == SubSeq(q, 1, Len(q) - 1)

LastUpTo(q, n) == Last(q, Min(n, Len(q)))

Rounded(a) == [i \in Bars |-> Round(a[i])]

\* the spectrum() call on the UI thread has read every bar and is about to
\* return rdAcc
ReadComplete == uiPc = "rd" /\ Len(rdAcc) = NUM_BARS

\* C1: VisualizerSource::next never waits on the sample buffer: its lock attempt
\* is always able to proceed, and when the lock is held by the analyser or by a
\* clearer the step returns the sample to the sink at once, copies nothing and
\* leaves the buffer and the lock as they were.
C1_TapNeverWaits ==
    /\ [](audPc = "try" => ENABLED AudioTryLock)
    /\ [][(audPc = "try" /\ bufLock # Free /\ audPc' # audPc) =>
            /\ audPc' = "idle"
            /\ returned' = Append(returned, audSample)
            /\ buf' = buf
            /\ pushed' = pushed
            /\ bufLock' = bufLock]_vars

\* the last sample returned to the sink was not copied, and a clearer or the
\* analyser holds the lock
C1_Witness ==
    /\ audPc = "idle"
    /\ bufLock \in {"ui", "fft"}
    /\ tracks = 1
    /\ returned # <<>>
    /\ returned[Len(returned)] \notin Range(pushed)

\* C2: what next() has returned to the sink is, in value, count and order, what
\* the inner stream has yielded (less the sample next() is still holding),
\* whether or not the copies succeeded, and the tap has ended exactly the
\* streams whose inner iterator has ended.
C2_TapIsTransparent ==
    /\ returned = IF audPc = "idle" THEN produced ELSE Front(produced)
    /\ ended.tap = ended.inner

\* a whole stream has gone through the tap and ended, and at least one of its
\* samples was not copied
C2_Witness ==
    /\ tracks = 1
    /\ uiPc = "idle"
    /\ audPc = "idle"
    /\ 1 \in ended.tap
    /\ Len(returned) = MaxSamples
    /\ Len(pushed) < Len(returned)

\* C3: whenever the sample-buffer lock is free the buffer holds at most
\* BUFFER_CAP samples, and exactly BUFFER_CAP once that many have been pushed
\* since the last clear.
C3_BufferBounded ==
    bufLock = Free =>
        /\ Len(buf) <= BUFFER_CAP
        /\ Len(pushed) >= BUFFER_CAP => Len(buf) = BUFFER_CAP

\* more samples than the capacity were pushed, and the lock is free again
C3_Witness ==
    /\ bufLock = Free
    /\ Len(pushed) > BUFFER_CAP
    /\ Len(buf) = BUFFER_CAP

\* C4: once a push is complete the buffer is exactly the most recent samples
\* pushed since the last clear, at most BUFFER_CAP of them, in push order.
C4_BufferIsNewestPushed ==
    audPc # "drain" => buf = LastUpTo(pushed, BUFFER_CAP)

\* the oldest pushed sample has been evicted
C4_Witness ==
    /\ audPc = "idle"
    /\ Len(pushed) = BUFFER_CAP + 1
    /\ buf = Last(pushed, BUFFER_CAP)
    /\ pushed[1] \notin Range(buf)

\* C5: a window the analyser reads from the buffer in an iteration that began
\* after play_file_from returned Ok holds no sample of a stream older than the
\* one that call started.
C5_NoPreSeekSampleRead ==
    \A i \in 1..Len(raw) : raw[i][1] >= rawSeek

\* C6: a spectrum() called after play_file_from returned Ok returns the zeroed
\* snapshot or one computed from a window that holds no sample of a stream
\* older than the one that call started.
C6_NoPreSeekSnapshotRead ==
    ReadComplete =>
        \/ rdAcc = Rounded(Zeros)
        \/ \A g \in specGens : g >= completed

\* C7: every spectrum() returns NUM_BARS values that are, as a whole, the
\* all-zero array or one array the analyser published.
C7_SnapshotReadWhole ==
    ReadComplete => rdAcc \in {Rounded(a) : a \in published \cup {Zeros}}

\* a read returns a published array after two different arrays were published
C7_Witness ==
    /\ ReadComplete
    /\ Cardinality(published) >= 2
    /\ rdAcc # Rounded(Zeros)
    /\ rdAcc = Rounded(spectrum)

\* C8: every bar of the snapshot, of every published array and of the
\* analyser's previous-value state lies in [0, 100], and so does every value
\* spectrum() returns.
C8_BarsInRange ==
    /\ \A i \in Bars : /\ spectrum[i] \in 0..(100 * Scale)
                       /\ prev[i] \in 0..(100 * Scale)
    /\ \A a \in published : \A i \in Bars : a[i] \in 0..(100 * Scale)
    /\ \A i \in 1..Len(rdAcc) : rdAcc[i] \in 0..100

\* a bar has risen twice towards a level that the clamp cut down to 100, and
\* another array holds a bar that has decayed
C8_Witness ==
    /\ \E a \in published : a[1] = 96 * Scale
    /\ \E i \in 1..Len(rdAcc) : rdAcc[i] = 96

\* C9: the gain read from a band after set_<band>_db(g), with no write to the
\* store in between, is a multiple of 0.01 dB within half a step of
\* clamp(g, -12, 12), and the other two bands hold what they held before.
C9_SetThenGet ==
    lastSet.band # "none" =>
        /\ BandDb(lastSet.band) % 10 = 0
        /\ 2 * Abs(BandDb(lastSet.band) - Clamp(lastSet.g, -12000, 12000)) <= 10
        /\ \A b \in BandSet \ {lastSet.band} : gains[b] = lastSet.before[b]

\* Bass set to +20 dB reads back 12.0 dB, with another band already changed
C9_Witness ==
    /\ lastSet.band = "bass"
    /\ lastSet.g = 20000
    /\ BandDb("bass") = 12000
    /\ gains["mid"] # 0

\* C10: every band always holds a whole number of centi-dB within
\* [MIN_CENTI_DB, MAX_CENTI_DB], and every value load_centi has loaded is one
\* that was stored in that band (or its initial 0).
C10_StoredInRange ==
    /\ \A b \in BandSet : /\ gains[b] \in MIN_CENTI_DB..MAX_CENTI_DB
                          /\ gains[b] \in written[b]
    /\ \A i \in 1..Len(loaded) : /\ loaded[i] \in MIN_CENTI_DB..MAX_CENTI_DB
                                 /\ loaded[i] \in written[Bands[i]]

\* load_centi has returned a triple that the store never held at one time:
\* an old bass gain with a treble gain clamped to the maximum after the load
C10_Witness ==
    /\ Len(loaded) = Len(Bands)
    /\ loaded[1] # gains["bass"]
    /\ loaded[3] = MAX_CENTI_DB
    /\ lastSet.band = "bass"

\* C13: once the running flag is cleared the analyser loop eventually exits;
\* the drop returns only when the loop thread has exited; and every drop that
\* has begun returns.
C13_TeardownTerminates ==
    /\ (~running) ~> (fftPc = "exit")
    /\ [](uiPc = "dropped" => fftPc = "exit")
    /\ (uiPc = "join") ~> (uiPc = "dropped")

\* the drop has returned after the flag was cleared during a sleep
C13_Witness ==
    /\ uiPc = "dropped"
    /\ fftPc = "exit"
    /\ wokeStopped
    /\ published # {}

\* C14: an iteration whose sleep ended after the running flag was cleared
\* reads no window from the buffer and publishes nothing.
C14_NoWorkAfterStop ==
    ~(wokeStopped /\ fftPc \in {"lockspec", "publish"})

\* C15: when play_file_from has returned an error, the source that was
\* playing when it was called (the one the last successful call started) is
\* still the sink's source, unless it has ended by itself.
C15_FailedStartKeepsSource ==
    (uiPc = "idle" /\ tracks > completed /\ completed # 0
                  /\ completed \notin ended.inner)
        => sinkSrc = completed

C11_GainChangeEffective ==
    (srcPc \in {"run", "idle"} /\ writes = seenWrites
                               /\ sinceWrite >= COEF_UPDATE_INTERVAL)
        => /\ lastGains = gains
           /\ \A b \in BandSet \ stale : coef[b] = gains[b]

\* a refresh, not a construction, has brought changed gains into effect
C11_Witness ==
    /\ srcPc = "idle"
    /\ lastBuild = "refresh"
    /\ writes = seenWrites
    /\ sinceWrite = COEF_UPDATE_INTERVAL
    /\ lastGains = gains
    /\ coef = gains
    /\ gains["bass"] # 0

\* C12: maybe_update reads the gains only in a call in which the counter
\* reaches COEF_UPDATE_INTERVAL, and the counter is then 0; the last-used
\* triple and the coefficients change only when an EqSource is built or in
\* such a call when the triple read differs from the last-used one.
C12_RecomputeOnlyOnChange ==
    /\ [][(srcPc' = "load" /\ srcPc # "load") =>
            (srcN + 1 = COEF_UPDATE_INTERVAL /\ srcN' = 0)]_vars
    /\ [][(lastGains' # lastGains \/ coef' # coef) =>
            \/ /\ srcPc \in {"none", "idle"}
               /\ srcPc' = "idle"
               /\ srcN' = 0
               /\ lastBuild' = "new"
            \/ /\ srcPc = "load"
               /\ Len(loaded) = Len(Bands)
               /\ srcN = 0
               /\ AsGains(loaded) # lastGains]_vars

\* a gain check has just found the stored, non-flat gains equal to the ones
\* last used, which date from the construction
C12_Witness ==
    /\ srcPc = "run"
    /\ srcN = 0
    /\ lastBuild = "new"
    /\ lastGains = gains
    /\ coef = gains
    /\ gains["bass"] # 0
    /\ writes = seenWrites

\* C17: in a refresh a band whose derivation fails keeps the coefficients it
\* had and every other band gets the ones of the gain read for it; the call
\* goes on to filter its sample, and a sample that is to be filtered always
\* can be, and is returned.
C17_FailedBandKeepsCoefficients ==
    /\ [][(srcPc = "load" /\ Len(loaded) = Len(Bands) /\ srcPc' # srcPc
              /\ AsGains(loaded) # lastGains) =>
            /\ srcPc' = "run"
            /\ \A b \in stale' : coef'[b] = coef[b]
            /\ \A b \in BandSet \ stale' : coef'[b] = AsGains(loaded)[b]]_vars
    /\ [](srcPc = "run" => ENABLED EqRun)
    /\ [][(srcPc = "run" /\ srcPc' # srcPc) => srcPc' = "idle"]_vars

\* after a refresh in which the mid band's derivation failed, mid still has
\* the non-flat coefficients of an earlier gain, bass has those of its new
\* gain, and the sample of that call has been filtered and returned
C17_Witness ==
    /\ srcPc = "idle"
    /\ ~seeked
    /\ lastBuild = "refresh"
    /\ stale = {"mid"}
    /\ coef["mid"] # 0
    /\ coef["mid"] # lastGains["mid"]
    /\ lastGains["bass"] # 0
    /\ coef["bass"] = lastGains["bass"]

\* C18: EqSource::new never panics.
C18_ConstructionCompletes == srcPc # "panic"

\* C19 as stated: a seek or a restart zeroes the delay state of the three
\* bands and changes neither the coefficients, nor the last-used triple, nor
\* the stored gains.
C19_SeekChangesOnlyDelay ==
    [][(srcPc = "idle" /\ srcPc' = "idle" /\ seeked'
               /\ srcVars' # srcVars) =>
        /\ delay' = ZeroDelay
        /\ coef' = coef
        /\ lastGains' = lastGains
        /\ gains' = gains]_vars

\* C19: from a seek or a restart until the next sample is filtered the delay
\* state of the three bands is zero; the stored gains are not changed by
\* either; try_seek changes neither the coefficients nor the last-used
\* triple, while a restart takes the stored triple as the last-used one and
\* the coefficients derived from it.
C19_SeekResetsDelay ==
    /\ [](seeked => delay = ZeroDelay)
    /\ [][(srcPc = "idle" /\ srcPc' = "idle" /\ seeked'
               /\ srcVars' # srcVars) =>
            /\ gains' = gains
            /\ \/ /\ coef' = coef
                  /\ lastGains' = lastGains
                  /\ srcN' = srcN
               \/ /\ lastGains' = gains
                  /\ srcN' = 0
                  /\ lastBuild' = "new"
                  /\ \A b \in BandSet \ stale' : coef'[b] = gains[b]]_vars

\* a try_seek in the middle of an interval, after samples were filtered with
\* non-flat coefficients
C19_Witness ==
    /\ srcPc = "idle"
    /\ seeked
    /\ srcN > 0
    /\ delay = ZeroDelay
    /\ coef["bass"] # 0

\* C16: for half = 1024 and 32 bars, each bar's range ends where the next
\* one begins, and when all bars are mapped every bin 1..1023 lies in the
\* range [lo, hi) of exactly one bar.
C16_BinRangesPartition ==
    (binHalf = 1024 /\ binBars = 32) =>
        /\ \A j \in 1..(Len(binRanges) - 1) :
              binRanges[j][2] = binRanges[j + 1][1]
        /\ binPc = "done" =>
              \A bin \in 1..1023 :
                  Cardinality({j \in 1..Len(binRanges) :
                                  /\ binRanges[j][1] <= bin
                                  /\ bin < binRanges[j][2]}) = 1

\* C23: for half = 1024 and 32 bars, every bar's bin range has
\* 1 <= lo <= half - 1 and lo < hi <= half, both for the bar being
\* averaged and for every bar already averaged: each bar averages at least
\* one bin, all inside the half magnitudes, and the divisor hi - lo is
\* never zero.
C23_BinRangeInBounds ==
    (binHalf = 1024 /\ binBars = 32) =>
        /\ binPc \in {"hi", "sum"} => (1 <= binLo /\ binLo <= binHalf - 1)
        /\ binPc = "sum" => (binLo < binHi /\ binHi <= binHalf)
        /\ \A j \in 1..Len(binRanges) :
              /\ 1 <= binRanges[j][1]
              /\ binRanges[j][1] <= binHalf - 1
              /\ binRanges[j][1] < binRanges[j][2]
              /\ binRanges[j][2] <= binHalf
              /\ binRanges[j][2] - binRanges[j][1] >= 1

\* all 32 bars mapped at half = 1024; the first bar needed the widening,
\* the last one ends at the last magnitude
C23_Witness ==
    /\ binHalf = 1024 /\ binBars = 32 /\ binPc = "done"
    /\ Len(binRanges) = 32
    /\ binRanges[1] = <<1, 2>>
    /\ binRanges[32][2] = 1024

\* C21: the channel count an iteration works with (loaded when the sleep
\* ends) is 1 when the stored count was never set since construction or is
\* zero, and the stored count otherwise; it is always at least 1.
\* set_channels has run iff a start got past the decoder: the start is at
\* its append, or some start has completed.
C21_UnsetCountsAsOne ==
    [][(fftPc = "sleep" /\ fftPc' = "lockbuf") =>
          /\ fftCh' >= 1
          /\ fftCh' = IF (completed = 0 /\ uiPc # "append") \/ channels = 0
                      THEN 1
                      ELSE channels]_vars

\* C22: the window an iteration copied is downmixed with the channel count
\* of the track its samples come from. The samples of the latest started
\* track have the count stored by that start (channels is written only by a
\* start, before its append), so a window holding one of them was taken with
\* fftCh = channels.
C22_WindowCountMatchesTrack ==
    \A k \in 1..Len(raw) : raw[k][1] = tracks => fftCh = channels

\* C27: no step of the analyser changes the sample buffer; the buffer
\* changes only in the tap's push and eviction and in clear(); and the window
\* an iteration copies is the newest FFT_SIZE * channels samples of the
\* buffer as it stands, so iterations that find the same buffer (nothing was
\* pushed in between) analyse the same window.
C27_AnalyserOnlyReads ==
    [][/\ fftPc' # fftPc => buf' = buf
       /\ buf' # buf =>
             \/ audPc = "push" /\ audPc' = "drain"
             \/ audPc = "drain" /\ audPc' = "idle"
             \/ uiPc = "clr_buf" /\ uiPc' = "clr_lockspec"
       /\ (fftPc = "read" /\ fftPc' = "lockspec") =>
             raw' = Last(buf, FFT_SIZE * fftCh)]_vars

\* a second iteration has copied its window after the first one published,
\* and exactly one window of samples was ever pushed: both iterations
\* analysed the same samples, which are still the buffer
C27_Witness ==
    /\ publishes = 1 /\ fftPc = "lockspec"
    /\ tracks = 1 /\ channels = 1 /\ fftCh = 1
    /\ Len(pushed) = FFT_SIZE
    /\ raw = pushed /\ buf = pushed

C25_SustainedPlaybackPublishes ==
    ([]<>(audPc = "push")) =>
        \A k \in 0..(PlayPublish - 1) : (publishes = k) ~> (publishes > k)

\* C26: no execution holds the buffer lock and the spectrum lock together;
\* none holds a lock where it sleeps, waits for a lock or is between calls;
\* and so no wait is for ever: each lock is free again and again, and an
\* execution waiting in lock() always leaves the wait, which it does only by
\* getting the lock.
C26_LocksNeverNested ==
    /\ [](\A t \in {"audio", "fft", "ui"} : ~(bufLock = t /\ specLock = t))
    /\ [](specLock # "audio")
    /\ [](audPc \in {"idle", "try"} => bufLock # "audio")
    /\ [](fftPc \in {"loop", "sleep", "lockbuf", "lockspec", "exit"} =>
             (bufLock # "fft" /\ specLock # "fft"))
    /\ [](uiPc \in {"idle", "clr_lockbuf", "clr_lockspec", "open", "append"} =>
             (bufLock # "ui" /\ specLock # "ui"))
    /\ []<>(bufLock = Free)
    /\ []<>(specLock = Free)
    /\ []<>(fftPc \notin {"lockbuf", "lockspec"})
    /\ []<>(uiPc \notin {"clr_lockbuf", "clr_lockspec"})

\* all three executions at the locks at once: the tap holds the buffer lock,
\* the UI reads the snapshot under the spectrum lock, the analyser waits for
\* the spectrum lock with a finished iteration
C26_Witness ==
    /\ bufLock = "audio"
    /\ specLock = "ui" /\ uiPc = "rd"
    /\ fftPc = "lockspec"

\* C28: once the App exists over a non-empty song list, after any operations
\* and ticks selected is an index of the list, now_playing is None or an
\* index of the list, and the list widget's selection is selected.
C28_SelectionValid ==
    (appPc = "run" /\ songsLen > 0) =>
        /\ selected \in 0..(songsLen - 1)
        /\ nowPlaying = None \/ nowPlaying \in 0..(songsLen - 1)
        /\ listSel = selected

\* prev_track at index 0 with repeat All went to the last row, whose file
\* did not start: the selection moved, now_playing stayed
C28_Witness ==
    /\ appOp = "prev" /\ repeat = "All" /\ songsLen = 3
    /\ selected = 2 /\ listSel = 2 /\ started = 2
    /\ nowPlaying = 0

\* the state App owns, and nothing was handed to the player
AppFrame ==
    /\ UNCHANGED <<songsLen, selected, nowPlaying, repeat, listSel, sinkEmpty,
                   sinkPaused>>
    /\ started' = None

\* index i was handed to the player and selected; it is now_playing if the
\* start succeeded and now_playing is as before if not
PlayedAndSelected(i) ==
    /\ started' = i
    /\ selected' = i
    /\ listSel' = i
    /\ nowPlaying' = IF sinkEmpty' THEN nowPlaying ELSE i

\* C29: a tick with a track marked playing changes nothing while the sink
\* has audio or is paused; otherwise repeat One plays the same index again,
\* repeat All plays and selects (idx + 1) mod songs.len(), repeat Off plays
\* and selects idx + 1 if there is one and else sets now_playing to None;
\* and a tick with now_playing None starts nothing.
C29_TrackEndAdvances ==
    [][(appSeq' # appSeq /\ appOp' = "tick") =>
          IF nowPlaying = None THEN AppFrame
          ELSE IF ~sinkEmpty \/ sinkPaused THEN AppFrame
          ELSE CASE repeat = "One" ->
                      /\ started' = nowPlaying
                      /\ nowPlaying' = nowPlaying
                      /\ UNCHANGED <<selected, listSel>>
                 [] repeat = "All" ->
                      PlayedAndSelected((nowPlaying + 1) % songsLen)
                 [] repeat = "Off" ->
                      IF nowPlaying + 1 < songsLen
                      THEN PlayedAndSelected(nowPlaying + 1)
                      ELSE /\ nowPlaying' = None
                           /\ started' = None
                           /\ UNCHANGED <<selected, listSel>>]_vars

\* a tick under repeat All has wrapped from the last of three songs to the
\* first and started it
C29_Witness ==
    /\ appOp = "tick" /\ repeat = "All" /\ songsLen = 3
    /\ started = 0 /\ nowPlaying = 0 /\ selected = 0
    /\ ~sinkEmpty

\* C30: prev_track with a track playing at idx: with the position more than
\* 3 seconds the current track is restarted and selected and now_playing are
\* unchanged; otherwise idx - 1 is played and selected, except at idx = 0,
\* where repeat All wraps to the last index and any other mode leaves all
\* state unchanged.
C30_PrevRestartsAfterThreeSeconds ==
    [][(appSeq' # appSeq /\ appOp' = "prev" /\ nowPlaying # None) =>
          IF seenPos' > 3000
          THEN /\ started' = nowPlaying
               /\ nowPlaying' = nowPlaying
               /\ UNCHANGED <<selected, listSel>>
          ELSE IF nowPlaying > 0 THEN PlayedAndSelected(nowPlaying - 1)
          ELSE IF repeat = "All" THEN PlayedAndSelected(songsLen - 1)
          ELSE AppFrame]_vars

\* the last step was the named seek handler
SeekStep(name) == appSeq' # appSeq /\ appOp' = name

\* the track is restarted at start: playback_start is start, the new sink
\* has played nothing, and the list and now_playing are as before
RestartedAt(start) ==
    /\ playbackStart' = start
    /\ sinkPos' = 0
    /\ Position' = start
    /\ UNCHANGED <<nowPlaying, selected, listSel>>

\* what the rest of C31 says of every step: playing adds its time to the
\* reported position and leaves the start offset alone; a seek with nothing
\* playing changes nothing
SeekRest ==
    /\ (appSeq' = appSeq /\ sinkPos' # sinkPos) =>
          /\ playbackStart' = playbackStart
          /\ Position' = Position + 1
    /\ ((SeekStep("seek_forward") \/ SeekStep("seek_backward"))
           /\ nowPlaying = None) =>
          /\ AppFrame
          /\ UNCHANGED <<playbackStart, sinkPos>>
    /\ (SeekStep("seek_backward") /\ nowPlaying # None /\ ~sinkEmpty') =>
          RestartedAt(IF Position > SEEK_STEP THEN Position - SEEK_STEP ELSE 0)

\* C31 as stated: a successful seek_forward restarts the current track at
\* min(position + 5 s, track duration), a successful seek_backward at
\* max(position - 5 s, 0); now_playing and selected are unchanged; the
\* reported position is then that start plus the time played since; with
\* nothing playing both seeks change nothing.
C31_SeekStartsWithinTrack ==
    [][/\ SeekRest
       /\ (SeekStep("seek_forward") /\ nowPlaying # None /\ ~sinkEmpty') =>
             RestartedAt(Min(Position + SEEK_STEP, songLens[nowPlaying + 1]))
      ]_vars

\* C31, amended: the same, with seek_forward held at the duration recorded
\* for the song, and not held at all (start = position + 5 s, possibly past
\* the end of the file) when no duration is recorded for it.
C31_SeekStartsWithinKnownDuration ==
    [][/\ SeekRest
       /\ (SeekStep("seek_forward") /\ nowPlaying # None /\ ~sinkEmpty') =>
             RestartedAt(IF songDurs[nowPlaying + 1] = None
                         THEN Position + SEEK_STEP
                         ELSE Min(Position + SEEK_STEP,
                                  songDurs[nowPlaying + 1]))
      ]_vars

\* a successful seek_forward on a song without a recorded duration, selected
\* row elsewhere: the track restarted 5 s on, past the end of its file
C31_Witness ==
    /\ appOp = "seek_forward" /\ ~sinkEmpty /\ nowPlaying # None
    /\ selected # nowPlaying
    /\ songDurs[nowPlaying + 1] = None
    /\ playbackStart = seekPos + SEEK_STEP /\ sinkPos = 0
    /\ playbackStart > songLens[nowPlaying + 1]

=============================================================================
